---------------------------- MODULE Spec2Model ----------------------------
(***************************************************************************)
(* Model of the space_packets crate: the primary header bitfield codec,    *)
(* the packet decode / encode paths, the streaming frame reader and the    *)
(* wiring of the reader task and the logging task in main.                 *)
(*                                                                         *)
(* Bytes are integers 0..255, buffers are sequences of bytes, u16 values   *)
(* are integers 0..65535.  A u32 is kept as the pair <<high word, low      *)
(* word>> so that every 32-bit value stays representable.                  *)
(***************************************************************************)
EXTENDS Integers, Sequences, FiniteSets, TLC

(***************************************************************************)
(* Bit operations on unsigned 16-bit values.                               *)
(***************************************************************************)
\* Function application evaluates its arguments once, before the body.
BitAnd[a \in Nat, b \in Nat] ==
    IF a = 0 \/ b = 0 THEN 0
    ELSE (IF a % 2 = 1 /\ b % 2 = 1 THEN 1 ELSE 0) + 2 * BitAnd[a \div 2, b \div 2]

BitOr[a \in Nat, b \in Nat] ==
    IF a = 0 THEN b
    ELSE IF b = 0 THEN a
    ELSE (IF a % 2 = 1 \/ b % 2 = 1 THEN 1 ELSE 0) + 2 * BitOr[a \div 2, b \div 2]

BitXor[a \in Nat, b \in Nat] ==
    IF a = 0 THEN b
    ELSE IF b = 0 THEN a
    ELSE (IF a % 2 # b % 2 THEN 1 ELSE 0) + 2 * BitXor[a \div 2, b \div 2]

And16(a, b) == BitAnd[a, b]
Or16(a, b)  == BitOr[a, b]
Xor16(a, b) == BitXor[a, b]

Pow2[n \in Nat] == IF n = 0 THEN 1 ELSE 2 * Pow2[n - 1]

\* `(x as u16) << n` : the shifted value truncated to 16 bits
Shl16(x, n) == (x * Pow2[n]) % 65536
\* `x >> n`
Shr(x, n) == x \div Pow2[n]
\* `x as u8`
AsU8(x) == x % 256

\* byteorder: read_u16::<BigEndian> of the two bytes at (1-based) index i
read_u16(buf, i) == buf[i] * 256 + buf[i + 1]
\* byteorder: write_u16::<BigEndian>
write_u16(val) == << val \div 256, val % 256 >>
\* byteorder: read_u32::<BigEndian> of the four bytes at index i, as <<hi, lo>>
read_u32(buf, i) == << read_u16(buf, i), read_u16(buf, i + 2) >>
\* byteorder: write_u32::<BigEndian>
write_u32(val) == write_u16(val[1]) \o write_u16(val[2])

\* The slice buf[from..to) of Rust (0-based, end exclusive)
Slice(buf, from, to) == SubSeq(buf, from + 1, to)

(***************************************************************************)
(* protocol::hasher.  The module is declared in protocol/mod.rs and used   *)
(* by packet.rs, its file is not part of the sources.  It is modelled from *)
(* the contract of the specification (incremental accumulator, the valid   *)
(* state of a whole frame is zero) as the CRC-16 with polynomial 0x1021    *)
(* and initial value 0xFFFF, which reproduces the checksums 0xC1F8 and     *)
(* 0x2DDD of the two frames of the unit tests.                             *)
(***************************************************************************)
INITIAL_VALUE == 65535

CRC_POLY == 4129

\* n shifts of the 16-bit register c, with the polynomial folded in whenever
\* the bit shifted out is set
crc_shift[c \in Nat, n \in Nat] ==
    IF n = 0 THEN c
    ELSE crc_shift[IF c >= 32768
                   THEN Xor16(Shl16(c, 1), CRC_POLY)
                   ELSE Shl16(c, 1),
                   n - 1]

crc_byte(c, b) == crc_shift[Xor16(c, b * 256), 8]

crc_fold[init \in Nat, buf \in Seq(Nat)] ==
    IF buf = << >> THEN init
    ELSE crc_fold[crc_byte(init, Head(buf)), Tail(buf)]

\* hasher::compute_partial: continue the accumulator init over buf
compute_partial(init, buf) == crc_fold[init, buf]

append_partial_checksum(checksum, buf) ==
    buf \o write_u16(compute_partial(checksum, buf))

append_checksum(buf) == append_partial_checksum(INITIAL_VALUE, buf)

(***************************************************************************)
(* protocol::primary_header                                                *)
(***************************************************************************)
FilterVersionNo  == 57344   \* 0xE000
FilterPkyType    == 4096    \* 0x1000
FilterSecHdrFlag == 2048    \* 0x0800
FilterApid       == 2047    \* 0x07FF
FilterSeqFlags   == 49152   \* 0xC000
FilterSeqCount   == 16383   \* 0x3FFF

get_version_number(val) == AsU8(Shr(And16(val, FilterVersionNo), 13))

\* "panic" stands for the panic!() arm of the match
get_packet_type(val) ==
    LET flag == AsU8(Shr(And16(val, FilterPkyType), 12))
    IN  IF flag = 0 THEN "Telemetry"
        ELSE IF flag = 1 THEN "Telecommand"
        ELSE "panic"

get_secondary_header_flag(val) == Shr(And16(val, FilterSecHdrFlag), 11) # 0

\* get_apid with a filter of ten bits
get_apid_narrow(val) == And16(val, 1023)

get_apid(val) == And16(val, FilterApid)

get_sequence_flags(val) == AsU8(Shr(And16(val, FilterSeqFlags), 14))

get_sequence_counter(val) == And16(val, FilterSeqCount)

\* `self.packet_type as u16`
PktTypeCode(t) == IF t = "Telemetry" THEN 0 ELSE 1

\* `self.secondary_header_flag as u16`
BoolCode(b) == IF b THEN 1 ELSE 0

\* PrimaryHeader::from_buffer, for a buffer of at least 6 bytes
PrimaryHeader_from_buffer(buf) ==
    LET val1 == read_u16(buf, 1)
        val2 == read_u16(buf, 3)
        val3 == read_u16(buf, 5)
    IN  [ version_number        |-> get_version_number(val1),
          packet_type           |-> get_packet_type(val1),
          secondary_header_flag |-> get_secondary_header_flag(val1),
          apid                  |-> get_apid(val1),
          sequence_flags        |-> get_sequence_flags(val2),
          sequence_counter      |-> get_sequence_counter(val2),
          data_length           |-> val3 ]

\* PrimaryHeader::get_buffer
PrimaryHeader_get_buffer(h) ==
    LET val1 == Or16(Or16(Or16(Shl16(h.version_number, 13),
                               Shl16(PktTypeCode(h.packet_type), 12)),
                          Shl16(BoolCode(h.secondary_header_flag), 11)),
                     h.apid)
        val2 == Or16(Shl16(h.sequence_flags, 14), h.sequence_counter)
    IN  write_u16(val1) \o write_u16(val2) \o write_u16(h.data_length)

(***************************************************************************)
(* protocol::secondary_header and protocol::user_data_field                *)
(***************************************************************************)
SecondaryHeader_from_buffer(buf) ==
    [ time_week |-> read_u32(buf, 1), time_ms |-> read_u32(buf, 5) ]

SecondaryHeader_get_buffer(s) == write_u32(s.time_week) \o write_u32(s.time_ms)

UserDataField_from_buffer(buf) == [ data |-> buf ]

UserDataField_get_buffer(u) == u.data

(***************************************************************************)
(* protocol::packet                                                        *)
(***************************************************************************)
None == [ tag |-> "None" ]

Some(x) == [ tag |-> "Some", val |-> x ]

\* The bytes of an optional component: nothing when it is absent
OptSecBuffer(o) ==
    IF o.tag = "Some" THEN SecondaryHeader_get_buffer(o.val) ELSE << >>

OptDataBuffer(o) ==
    IF o.tag = "Some" THEN UserDataField_get_buffer(o.val) ELSE << >>

\* Packet::new
Packet_new(pri_header, sec_header, user_data) ==
    LET pri_buf == PrimaryHeader_get_buffer(pri_header)
        c1 == compute_partial(INITIAL_VALUE, pri_buf)
        c2 == IF sec_header.tag = "Some"
              THEN compute_partial(c1, SecondaryHeader_get_buffer(sec_header.val))
              ELSE c1
        c3 == IF user_data.tag = "Some"
              THEN compute_partial(c2, UserDataField_get_buffer(user_data.val))
              ELSE c2
    IN  [ pri_header |-> pri_header, sec_header |-> sec_header,
          user_data |-> user_data, checksum |-> c3 ]

\* The comparison of has_user_data_of made inclusive
has_user_data_inclusive(has_sec_header, len) ==
    IF has_sec_header THEN len >= 10 ELSE len >= 2

\* `data_buf.len() > 10` / `data_buf.len() > 2`
has_user_data_of(has_sec_header, len) ==
    IF has_sec_header THEN len > 10 ELSE len > 2

Panic(site) == [ kind |-> "Panic", site |-> site ]

\* Packet::from_buffers for a 6-byte header_buf.  The function returns a
\* Packet or panics; overflow_checks tells whether the build checks integer
\* arithmetic (debug profile) or wraps (release profile).  The sites of a
\* panic, in program order: the subtraction `len - 2`, the slice [0..8], the
\* assert_eq! on the checksum, the unwrap of seek(End(-2)).
from_buffers(header_buf, data_buf, overflow_checks) ==
    LET pri_header     == PrimaryHeader_from_buffer(header_buf)
        len            == Len(data_buf)
        has_sec_header == pri_header.secondary_header_flag
        has_user_data  == has_user_data_of(has_sec_header, len)
        end            == len - 2
        sec_header     == IF has_sec_header
                          THEN Some(SecondaryHeader_from_buffer(Slice(data_buf, 0, 8)))
                          ELSE None
        user_data      == IF has_user_data
                          THEN Some(UserDataField_from_buffer(
                                   Slice(data_buf, IF has_sec_header THEN 8 ELSE 0, end)))
                          ELSE None
        checksum       == compute_partial(
                              compute_partial(INITIAL_VALUE, header_buf), data_buf)
    IN  IF pri_header.packet_type = "panic" THEN Panic("packet_type")
        ELSE IF len < 2 /\ overflow_checks THEN Panic("subtract")
        ELSE IF has_sec_header /\ len < 8 THEN Panic("slice")
        ELSE IF checksum # 0 THEN Panic("checksum")
        ELSE IF len < 2 THEN Panic("seek")
        ELSE [ kind |-> "Ok",
               pkt  |-> [ pri_header |-> pri_header,
                          sec_header |-> sec_header,
                          user_data  |-> user_data,
                          checksum   |-> read_u16(data_buf, len - 1) ] ]

\* Packet::into_buffer
into_buffer(pkt) ==
    append_checksum(PrimaryHeader_get_buffer(pkt.pri_header)
                    \o OptSecBuffer(pkt.sec_header)
                    \o OptDataBuffer(pkt.user_data))

\* into_buffers with the checksum of the data field started afresh
into_buffers_fresh_checksum(pkt) ==
    LET header == PrimaryHeader_get_buffer(pkt.pri_header)
        buf    == OptSecBuffer(pkt.sec_header) \o OptDataBuffer(pkt.user_data)
    IN  << header, append_partial_checksum(INITIAL_VALUE, buf) >>

\* Packet::into_buffers
into_buffers(pkt) ==
    LET header   == PrimaryHeader_get_buffer(pkt.pri_header)
        checksum == compute_partial(INITIAL_VALUE, header)
        buf      == OptSecBuffer(pkt.sec_header) \o OptDataBuffer(pkt.user_data)
    IN  << header, append_partial_checksum(checksum, buf) >>

(***************************************************************************)
(* Bounds of the model and the byte sources it is run on.                  *)
(***************************************************************************)
\* Largest number of frames concatenated on one source
MaxFrames == 2

\* First 6 and the following 16 bytes of VALID_SOURCE (the frame SP1)
SP1_HEADER == << 8, 115, 193, 35, 0, 15 >>

SP1_BODY == << 0, 0, 18, 52, 0, 171, 205, 239, 165, 165, 90, 90, 195, 60, 193, 248 >>

\* The frame SP2 of the unit tests
SP2_HEADER == << 23, 84, 198, 130, 0, 4 >>

SP2_BODY == << 1, 2, 0, 45, 221 >>

\* The wire image of a frame whose checksum is right: header, content and
\* the checksum that continues the accumulator of the header over the content
MkFrame(header, content) ==
    header \o append_partial_checksum(compute_partial(INITIAL_VALUE, header), content)

\* No secondary header, no user data: the body is the checksum alone
FrameMinimal == MkFrame(<< 0, 1, 0, 0, 0, 1 >>, << >>)

\* SP2 with the lowest bit of its last checksum byte flipped
FrameBadChecksum == SP2_HEADER \o << 1, 2, 0, 45, 220 >>

\* data_length = 0: a body of one byte
FrameOneByteBody == << 0, 2, 0, 0, 0, 0, 7 >>

\* Secondary header flagged, data_length = 3: a body of four bytes
FrameShortFlagged == << 8, 3, 0, 0, 0, 3, 1, 2, 3, 4 >>

\* Secondary header flagged, data_length = 7: a body of eight bytes whose
\* last two are the checksum of the bytes before them
FrameOverlap == MkFrame(<< 8, 4, 0, 0, 0, 7 >>, << 0, 9, 0, 0, 0, 5 >>)

WireFrames ==
    { SP1_HEADER \o SP1_BODY, SP2_HEADER \o SP2_BODY, FrameMinimal,
      FrameBadChecksum, FrameOneByteBody, FrameShortFlagged, FrameOverlap }

RECURSIVE Concats(_)
Concats(n) ==
    IF n = 0 THEN { << >> }
    ELSE LET P == Concats(n - 1)
         IN  P \cup { p \o f : p \in P, f \in WireFrames }

Prefixes(s) == { SubSeq(s, 1, k) : k \in 0..Len(s) }

\* Every source: up to MaxFrames frames, cut at any offset
Sources == UNION { Prefixes(s) : s \in Concats(MaxFrames) }

(***************************************************************************)
(* State                                                                   *)
(***************************************************************************)
VARIABLES
    overflow_checks, \* build profile: TRUE when integer overflow panics
    src,             \* the bytes the source delivers before it ends
    src_end,         \* how the source ends: "eof" or "ioerr"
    pos,             \* number of bytes the reader has consumed
    header_buf,      \* Reader.header_buf
    data_buf,        \* Reader.data_buf
    should_stop,     \* the value read() returned to run()
    pc,              \* position of run(): AwaitingHeader, AwaitingBody, Emit, Stopped
    run_result,      \* what run() returned: Running, Ok, Err or Panic
    chan,            \* every packet sent on the broadcast channel, in order
    reader_task,     \* the task of main that owns the Reader (and the Sender)
    rx_next,         \* number of packets the receiver has gone past
    logger_task,     \* the task of main that owns the Receiver
    main_task,       \* position of main: AwaitReader, AwaitLogger, Finished,
                     \* Panicked (unwinding), Exited (runtime dropped)
    logged,          \* the packets the logging task has received, in order
    hdr_got,         \* bytes the source delivered to the last header read
    body_got,        \* bytes the source delivered to the last body read
    n_frames,        \* number of frames whose header and body were read whole
    t_op, t_in, t_mid, t_out   \* a direct call of the codec: operation, argument, results

reader_vars ==
    << overflow_checks, src, src_end, pos, header_buf, data_buf, should_stop,
       pc, run_result, chan, reader_task, rx_next, logger_task, logged,
       hdr_got, body_got, n_frames, main_task >>

call_vars == << t_op, t_in, t_mid, t_out >>

vars == << reader_vars, call_vars >>

HEADER_SIZE == 6

CHANNEL_SIZE == 1024

Running == [ kind |-> "Running" ]

Ok == [ kind |-> "Ok" ]

Err(context) == [ kind |-> "Err", context |-> context ]

\* The Sender lives in the Reader, which the reader task of main owns
sender_alive == reader_task = "Running"

\* The Receiver is owned by the logging task of main
rx_alive == logger_task = "Running"

\* Vec::resize(n, 0)
Resize(buf, n) ==
    IF Len(buf) >= n THEN SubSeq(buf, 1, n)
    ELSE buf \o [ i \in 1..(n - Len(buf)) |-> 0 ]

\* read_exact into buf: the bytes available overwrite the front of buf
Overwrite(buf, bytes) == bytes \o SubSeq(buf, Len(bytes) + 1, Len(buf))

ReaderInit ==
    /\ overflow_checks \in BOOLEAN
    /\ src \in Sources
    /\ src_end \in { "eof", "ioerr" }
    /\ pos = 0
    /\ header_buf = << >>
    /\ data_buf = << >>
    /\ should_stop = FALSE
    /\ pc = "AwaitingHeader"
    /\ run_result = Running
    /\ chan = << >>
    /\ reader_task = "Running"
    /\ rx_next = 0
    /\ logger_task = "Running"
    /\ main_task = "AwaitReader"
    /\ logged = << >>
    /\ hdr_got = 0
    /\ body_got = 0
    /\ n_frames = 0

CallIdle ==
    /\ t_op = "idle"
    /\ t_in = << >>
    /\ t_mid = << >>
    /\ t_out = << >>

Init == ReaderInit /\ CallIdle

\* ReadHeader with the end of the source taken as nothing to read yet
ReadHeader_retries ==
    /\ pc = "AwaitingHeader"
    /\ LET buf   == Resize(header_buf, HEADER_SIZE)
           avail == Len(src) - pos
       IN  IF avail >= HEADER_SIZE
           THEN /\ header_buf' = SubSeq(src, pos + 1, pos + HEADER_SIZE)
                /\ pos' = pos + HEADER_SIZE
                /\ hdr_got' = HEADER_SIZE
                /\ pc' = "AwaitingBody"
                /\ UNCHANGED << should_stop, run_result >>
           ELSE /\ header_buf' = Overwrite(buf, SubSeq(src, pos + 1, Len(src)))
                /\ pos' = Len(src)
                /\ hdr_got' = avail
                /\ IF src_end = "eof"
                   THEN UNCHANGED << should_stop, pc, run_result >>
                   ELSE /\ run_result' = Err("header")
                        /\ pc' = "Stopped"
                        /\ UNCHANGED should_stop
    /\ body_got' = 0
    /\ UNCHANGED << overflow_checks, src, src_end, data_buf, chan, reader_task,
                    rx_next, logger_task, logged, n_frames,
                    call_vars, main_task >>

\* Reader::read, lines 63-70: the header read
ReadHeader ==
    /\ pc = "AwaitingHeader"
    /\ LET buf   == Resize(header_buf, HEADER_SIZE)
           avail == Len(src) - pos
       IN  IF avail >= HEADER_SIZE
           THEN /\ header_buf' = SubSeq(src, pos + 1, pos + HEADER_SIZE)
                /\ pos' = pos + HEADER_SIZE
                /\ hdr_got' = HEADER_SIZE
                /\ pc' = "AwaitingBody"
                /\ UNCHANGED << should_stop, run_result >>
           ELSE /\ header_buf' = Overwrite(buf, SubSeq(src, pos + 1, Len(src)))
                /\ pos' = Len(src)
                /\ hdr_got' = avail
                /\ IF src_end = "eof"
                   THEN \* ErrorKind::UnexpectedEof => return Ok(true)
                        /\ should_stop' = TRUE
                        /\ pc' = "Emit"
                        /\ UNCHANGED run_result
                   ELSE /\ run_result' = Err("header")
                        /\ pc' = "Stopped"
                        /\ UNCHANGED should_stop
    /\ body_got' = 0
    /\ UNCHANGED << overflow_checks, src, src_end, data_buf, chan, reader_task,
                    rx_next, logger_task, logged, n_frames,
                    call_vars, main_task >>

\* Reader::parse_pkt_length
parse_pkt_length(buf) == read_u16(buf, 5)

\* ReadBody with the end of the source handled as the header read handles it
ReadBody_eof_stops ==
    /\ pc = "AwaitingBody"
    /\ LET data_len == parse_pkt_length(header_buf) + 1
           buf      == Resize(data_buf, data_len)
           avail    == Len(src) - pos
       IN  IF avail >= data_len
           THEN /\ data_buf' = SubSeq(src, pos + 1, pos + data_len)
                /\ pos' = pos + data_len
                /\ body_got' = data_len
                /\ n_frames' = n_frames + 1
                /\ should_stop' = FALSE
                /\ pc' = "Emit"
                /\ UNCHANGED run_result
           ELSE /\ data_buf' = Overwrite(buf, SubSeq(src, pos + 1, Len(src)))
                /\ pos' = Len(src)
                /\ body_got' = avail
                /\ should_stop' = TRUE
                /\ pc' = "Emit"
                /\ UNCHANGED << run_result, n_frames >>
    /\ UNCHANGED << overflow_checks, src, src_end, header_buf, chan, reader_task,
                    rx_next, logger_task, logged, hdr_got,
                    call_vars, main_task >>

\* Reader::read, lines 72-83: the body read
ReadBody ==
    /\ pc = "AwaitingBody"
    /\ LET data_len == parse_pkt_length(header_buf) + 1
           buf      == Resize(data_buf, data_len)
           avail    == Len(src) - pos
       IN  IF avail >= data_len
           THEN /\ data_buf' = SubSeq(src, pos + 1, pos + data_len)
                /\ pos' = pos + data_len
                /\ body_got' = data_len
                /\ n_frames' = n_frames + 1
                /\ should_stop' = FALSE
                /\ pc' = "Emit"
                /\ UNCHANGED run_result
           ELSE /\ data_buf' = Overwrite(buf, SubSeq(src, pos + 1, Len(src)))
                /\ pos' = Len(src)
                /\ body_got' = avail
                /\ run_result' = Err("body")
                /\ pc' = "Stopped"
                /\ UNCHANGED << should_stop, n_frames >>
    /\ UNCHANGED << overflow_checks, src, src_end, header_buf, chan, reader_task,
                    rx_next, logger_task, logged, hdr_got,
                    call_vars, main_task >>

\* Emit with the result of send discarded
Emit_best_effort ==
    /\ pc = "Emit"
    /\ LET r == from_buffers(header_buf, data_buf, overflow_checks)
       IN  IF r.kind = "Panic"
           THEN /\ run_result' = r
                /\ pc' = "Stopped"
                /\ UNCHANGED chan
           ELSE /\ chan' = IF rx_alive THEN Append(chan, r.pkt) ELSE chan
                /\ IF should_stop
                   THEN run_result' = Ok /\ pc' = "Stopped"
                   ELSE pc' = "AwaitingHeader" /\ UNCHANGED run_result
    /\ UNCHANGED << overflow_checks, src, src_end, pos, header_buf, data_buf,
                    should_stop, reader_task, rx_next, logger_task, logged,
                    hdr_got, body_got, n_frames,
                    call_vars, main_task >>

\* Emit on a bounded queue: send completes when the channel has room
Emit_waits_for_room ==
    /\ pc = "Emit"
    /\ LET r == from_buffers(header_buf, data_buf, overflow_checks)
       IN  IF r.kind = "Panic"
           THEN /\ run_result' = r
                /\ pc' = "Stopped"
                /\ UNCHANGED chan
           ELSE IF ~rx_alive
           THEN /\ run_result' = Err("send")
                /\ pc' = "Stopped"
                /\ UNCHANGED chan
           ELSE /\ Len(chan) - rx_next < CHANNEL_SIZE
                /\ chan' = Append(chan, r.pkt)
                /\ IF should_stop
                   THEN run_result' = Ok /\ pc' = "Stopped"
                   ELSE pc' = "AwaitingHeader" /\ UNCHANGED run_result
    /\ UNCHANGED << overflow_checks, src, src_end, pos, header_buf, data_buf,
                    should_stop, reader_task, rx_next, logger_task, logged,
                    hdr_got, body_got, n_frames,
                    call_vars, main_task >>

\* Reader::run, lines 51-56: parse, send, and the test of should_stop
Emit ==
    /\ pc = "Emit"
    /\ LET r == from_buffers(header_buf, data_buf, overflow_checks)
       IN  IF r.kind = "Panic"
           THEN /\ run_result' = r
                /\ pc' = "Stopped"
                /\ UNCHANGED chan
           ELSE IF ~rx_alive
           THEN \* broadcast::Sender::send fails when there is no receiver
                /\ run_result' = Err("send")
                /\ pc' = "Stopped"
                /\ UNCHANGED chan
           ELSE /\ chan' = Append(chan, r.pkt)
                /\ IF should_stop
                   THEN run_result' = Ok /\ pc' = "Stopped"
                   ELSE pc' = "AwaitingHeader" /\ UNCHANGED run_result
    /\ UNCHANGED << overflow_checks, src, src_end, pos, header_buf, data_buf,
                    should_stop, reader_task, rx_next, logger_task, logged,
                    hdr_got, body_got, n_frames,
                    call_vars, main_task >>

\* main, lines 27-29: run() has returned or panicked, the task ends and the
\* Reader it owns is dropped, the Sender with it
ReaderTaskEnd ==
    /\ pc = "Stopped"
    /\ reader_task = "Running"
    /\ reader_task' = IF run_result.kind = "Ok" THEN "Finished" ELSE "Panicked"
    /\ UNCHANGED << overflow_checks, src, src_end, pos, header_buf, data_buf,
                    should_stop, pc, run_result, chan, rx_next, logger_task,
                    logged, hdr_got, body_got, n_frames,
                    call_vars, main_task >>

\* broadcast::Receiver::recv when it does not wait
recv_outcome ==
    IF Len(chan) - rx_next > CHANNEL_SIZE THEN "Lagged"
    ELSE IF rx_next < Len(chan) THEN "Packet"
    ELSE IF ~sender_alive THEN "Closed"
    ELSE "Wait"

\* logging, lines 40-48: one turn of the loop; an error of recv ends the task
LogRecv ==
    /\ logger_task = "Running"
    /\ recv_outcome # "Wait"
    /\ IF recv_outcome = "Packet"
       THEN /\ logged' = Append(logged, chan[rx_next + 1])
            /\ rx_next' = rx_next + 1
            /\ UNCHANGED logger_task
       ELSE /\ logger_task' = "Finished"
            /\ UNCHANGED << logged, rx_next >>
    /\ UNCHANGED << overflow_checks, src, src_end, pos, header_buf, data_buf,
                    should_stop, pc, run_result, chan, reader_task,
                    hdr_got, body_got, n_frames,
                    call_vars, main_task >>

\* main, lines 31-32: the join of the reader task; when that task has
\* panicked the unwrap panics main, which starts to unwind while the logging
\* task goes on
MainJoinReader ==
    /\ main_task = "AwaitReader"
    /\ reader_task # "Running"
    /\ main_task' = IF reader_task = "Finished" THEN "AwaitLogger" ELSE "Panicked"
    /\ UNCHANGED << overflow_checks, src, src_end, pos, header_buf, data_buf,
                    should_stop, pc, run_result, chan, reader_task, rx_next,
                    logger_task, logged, hdr_got, body_got, n_frames,
                    call_vars >>

\* main, lines 11-12: the runtime of #[tokio::main] is dropped when main
\* unwinds; a logging task still running is cancelled where it stands and
\* the process exits
RuntimeDrop ==
    /\ main_task = "Panicked"
    /\ main_task' = "Exited"
    /\ logger_task' = IF logger_task = "Running" THEN "Cancelled"
                      ELSE logger_task
    /\ UNCHANGED << overflow_checks, src, src_end, pos, header_buf, data_buf,
                    should_stop, pc, run_result, chan, reader_task, rx_next,
                    logged, hdr_got, body_got, n_frames, call_vars >>

\* main, lines 34-35: the join of the logging task
MainJoinLogger ==
    /\ main_task = "AwaitLogger"
    /\ logger_task = "Finished"
    /\ main_task' = "Finished"
    /\ UNCHANGED << overflow_checks, src, src_end, pos, header_buf, data_buf,
                    should_stop, pc, run_result, chan, reader_task, rx_next,
                    logger_task, logged, hdr_got, body_got, n_frames,
                    call_vars >>

Next ==
    \/ ReadHeader
    \/ ReadBody
    \/ Emit
    \/ ReaderTaskEnd
    \/ LogRecv
    \/ MainJoinReader
    \/ RuntimeDrop
    \/ MainJoinLogger

Spec == Init /\ [][Next]_vars

(***************************************************************************)
(* Direct calls of the codec, as the unit tests make them: the primary     *)
(* header round trips and the decode of a (header, body) pair followed by  *)
(* its re-encoding.  One call is made in a run.                            *)
(***************************************************************************)
\* Largest number of data-field bytes in front of the checksum
MaxContent == 9

HeaderValues ==
    [ version_number        : 0..7,
      packet_type           : { "Telemetry", "Telecommand" },
      secondary_header_flag : BOOLEAN,
      apid                  : { 0, 1, 115, 1024, 2047 },
      sequence_flags        : 0..3,
      sequence_counter      : { 0, 291, 8192, 16383 },
      data_length           : { 0, 15, 256, 65535 } ]

SampleBytes == { 0, 8, 23, 170, 255 }

HeaderBuffers ==
    { SP1_HEADER, SP2_HEADER } \cup [ 1..HEADER_SIZE -> SampleBytes ]

ContentBytes == { 0, 165 }

Contents == UNION { [ 1..n -> ContentBytes ] : n \in 0..MaxContent }

\* The header put in front of a body of len bytes
FrameHeader(flag, len) ==
    PrimaryHeader_get_buffer(
        [ version_number |-> 0, packet_type |-> "Telemetry",
          secondary_header_flag |-> flag, apid |-> 115, sequence_flags |-> 3,
          sequence_counter |-> 1,
          data_length |-> IF len = 0 THEN 0 ELSE len - 1 ])

\* Flip the lowest bit of the last byte
FlipLast(buf) ==
    [ buf EXCEPT ![Len(buf)] = IF @ % 2 = 0 THEN @ + 1 ELSE @ - 1 ]

\* The bodies tried for a content: with its checksum, with a wrong checksum,
\* and the content alone
FramePairs ==
    UNION { LET hv == FrameHeader(flag, Len(c) + 2)
                hr == FrameHeader(flag, Len(c))
                body == append_partial_checksum(compute_partial(INITIAL_VALUE, hv), c)
            IN  { << hv, body >>, << hv, FlipLast(body) >>, << hr, c >> }
            : flag \in BOOLEAN, c \in Contents }
    \cup { << SP1_HEADER, SP1_BODY >>, << SP2_HEADER, SP2_BODY >> }

\* Flip bit `bit` of the two trailing bytes: 0..7 in the last byte, 8..15 in
\* the one before it
FlipBit(buf, bit) ==
    LET i == IF bit < 8 THEN Len(buf) ELSE Len(buf) - 1
    IN  [ buf EXCEPT ![i] = BitXor[@, Pow2[bit % 8]] ]

\* Frames with a valid checksum, one per length of content and flag
CheckedFrames ==
    { LET hv == FrameHeader(flag, n + 2)
      IN  << hv, append_partial_checksum(compute_partial(INITIAL_VALUE, hv),
                                         [ i \in 1..n |-> 165 ]) >>
      : flag \in BOOLEAN, n \in 0..MaxContent }
    \cup { << SP1_HEADER, SP1_BODY >>, << SP2_HEADER, SP2_BODY >> }

\* Largest number of bytes of user data in a packet built with Packet::new
MaxUserData == 3

EncodeHeaders ==
    [ version_number        : { 0 },
      packet_type           : { "Telecommand" },
      secondary_header_flag : BOOLEAN,
      apid                  : { 1876 },
      sequence_flags        : { 3 },
      sequence_counter      : { 1666 },
      data_length           : { 0, 1, 4, 9, 12 } ]

EncodeSecHeaders ==
    { None, Some([ time_week |-> << 0, 4660 >>, time_ms |-> << 171, 52719 >> ]) }

EncodeUserData ==
    { None } \cup { Some(UserDataField_from_buffer(d)) :
                      d \in UNION { [ 1..n -> ContentBytes ] : n \in 0..MaxUserData } }

\* Packets composed in memory; the fields of Packet are public, the
\* components need not agree with the header
Packets ==
    { Packet_new(h, sh, ud) :
        h \in EncodeHeaders, sh \in EncodeSecHeaders, ud \in EncodeUserData }

ReaderIdle ==
    /\ overflow_checks = TRUE
    /\ src = << >>
    /\ src_end = "eof"
    /\ pos = 0
    /\ header_buf = << >>
    /\ data_buf = << >>
    /\ should_stop = FALSE
    /\ pc = "AwaitingHeader"
    /\ run_result = Running
    /\ chan = << >>
    /\ reader_task = "Running"
    /\ rx_next = 0
    /\ logger_task = "Running"
    /\ main_task = "AwaitReader"
    /\ logged = << >>
    /\ hdr_got = 0
    /\ body_got = 0
    /\ n_frames = 0

CodecInit == ReaderIdle /\ CallIdle

\* get_buffer then from_buffer (primary_header.rs test_sp1, second half)
CallEncodeDecode ==
    /\ t_op = "idle"
    /\ \E h \in HeaderValues :
          /\ t_op' = "encode_decode"
          /\ t_in' = h
          /\ t_mid' = PrimaryHeader_get_buffer(h)
          /\ t_out' = PrimaryHeader_from_buffer(t_mid')
    /\ UNCHANGED reader_vars

\* from_buffer then get_buffer
CallDecodeEncode ==
    /\ t_op = "idle"
    /\ \E b \in HeaderBuffers :
          /\ t_op' = "decode_encode"
          /\ t_in' = b
          /\ t_mid' = PrimaryHeader_from_buffer(b)
          /\ t_out' = PrimaryHeader_get_buffer(t_mid')
    /\ UNCHANGED reader_vars

\* Packet::from_buffers and, on the packet it returns, into_buffers
\* (reader.rs get_correct_buffers)
CallFromBuffers ==
    /\ t_op = "idle"
    /\ \E f \in FramePairs, oc \in BOOLEAN :
          /\ t_op' = "from_buffers"
          /\ t_in' = f
          /\ t_mid' = from_buffers(f[1], f[2], oc)
          /\ t_out' = IF t_mid'.kind = "Ok" THEN into_buffers(t_mid'.pkt) ELSE << >>
    /\ UNCHANGED reader_vars

\* Packet::new, then into_buffers and into_buffer of the packet
CallEncode ==
    /\ t_op = "idle"
    /\ \E pkt \in Packets :
          /\ t_op' = "encode"
          /\ t_in' = pkt
          /\ t_mid' = into_buffers(pkt)
          /\ t_out' = into_buffer(pkt)
    /\ UNCHANGED reader_vars

\* from_buffers on a frame, and on the frame with one bit of its trailing
\* checksum flipped
CallFlipChecksum ==
    /\ t_op = "idle"
    /\ \E f \in CheckedFrames, bit \in 0..15, oc \in BOOLEAN :
          /\ t_op' = "flip"
          /\ t_in' = << f[1], FlipBit(f[2], bit) >>
          /\ t_mid' = from_buffers(f[1], f[2], oc)
          /\ t_out' = from_buffers(f[1], FlipBit(f[2], bit), oc)
    /\ UNCHANGED reader_vars

CodecNext ==
    \/ CallEncodeDecode
    \/ CallDecodeEncode
    \/ CallFromBuffers
    \/ CallEncode
    \/ CallFlipChecksum

CodecSpec == CodecInit /\ [][CodecNext]_vars

\* The scheduling of main: the reader task and the logging task are spawned
\* on the runtime, each runs whenever it can make a step
\* Reader::new with the Receiver it returns dropped at once, as in the test
\* invalid_source
DetachedInit ==
    /\ overflow_checks \in BOOLEAN
    /\ src \in Sources
    /\ src_end \in { "eof", "ioerr" }
    /\ pos = 0
    /\ header_buf = << >>
    /\ data_buf = << >>
    /\ should_stop = FALSE
    /\ pc = "AwaitingHeader"
    /\ run_result = Running
    /\ chan = << >>
    /\ reader_task = "Running"
    /\ rx_next = 0
    /\ logger_task = "Dropped"
    /\ main_task = "Absent"
    /\ logged = << >>
    /\ hdr_got = 0
    /\ body_got = 0
    /\ n_frames = 0
    /\ CallIdle

\* run() with no other task
RunNext ==
    \/ ReadHeader
    \/ ReadBody
    \/ Emit

DetachedSpec == DetachedInit /\ [][RunNext]_vars

\* Largest number of frames the source still holds when the channel is full
MaxTail == 1

\* The i-th frame of a long stream: no secondary header, no user data, its
\* number as sequence counter
NumberedFrame(i) == MkFrame(<< 0, 1, i \div 256, i % 256, 0, 1 >>, << >>)

NumberedFrames == [ i \in 1..(CHANNEL_SIZE + MaxTail) |-> NumberedFrame(i) ]

\* The first n numbered frames, one after the other
NumberedSource(n) ==
    [ j \in 1..(8 * n) |-> NumberedFrames[((j - 1) \div 8) + 1][((j - 1) % 8) + 1] ]

\* main with a full channel: run() has read and published CHANNEL_SIZE
\* frames of the source and the logging task has not received any yet
BacklogInit ==
    /\ overflow_checks = TRUE
    /\ \E tail \in 1..MaxTail : src = NumberedSource(CHANNEL_SIZE + tail)
    /\ src_end = "eof"
    /\ pos = 8 * CHANNEL_SIZE
    /\ header_buf = SubSeq(NumberedFrames[CHANNEL_SIZE], 1, HEADER_SIZE)
    /\ data_buf = SubSeq(NumberedFrames[CHANNEL_SIZE], HEADER_SIZE + 1, 8)
    /\ should_stop = FALSE
    /\ pc = "AwaitingHeader"
    /\ run_result = Running
    /\ chan = [ i \in 1..CHANNEL_SIZE |->
                  from_buffers(SubSeq(NumberedFrames[i], 1, HEADER_SIZE),
                               SubSeq(NumberedFrames[i], HEADER_SIZE + 1, 8),
                               TRUE).pkt ]
    /\ reader_task = "Running"
    /\ rx_next = 0
    /\ logger_task = "Running"
    /\ main_task = "AwaitReader"
    /\ logged = << >>
    /\ hdr_got = HEADER_SIZE
    /\ body_got = 2
    /\ n_frames = CHANNEL_SIZE
    /\ CallIdle

BacklogSpec == BacklogInit /\ [][Next]_vars

\* run() alone, polled until it completes
RunLiveSpec == Init /\ [][RunNext]_vars /\ WF_vars(RunNext)

LiveSpec ==
    /\ Spec
    /\ WF_vars(ReadHeader \/ ReadBody \/ Emit)
    /\ WF_vars(ReaderTaskEnd)
    /\ WF_vars(LogRecv)
    /\ WF_vars(MainJoinReader)
    /\ WF_vars(RuntimeDrop)
    /\ WF_vars(MainJoinLogger)

(***************************************************************************)
(* Properties                                                              *)
(***************************************************************************)
\* run() has ended in parse/send on a frame read whole: a header of 6 bytes
\* and the L+1 body bytes it announces
StoppedOnWholeFrame ==
    /\ pc = "Stopped"
    /\ hdr_got = HEADER_SIZE
    /\ body_got = parse_pkt_length(header_buf) + 1

\* The secondary header flag as it stands in the header bytes
FlagBit(hb) == (hb[1] \div 8) % 2 = 1

\* The data field with no room for what the header announces
UnderLength(hb, db) == Len(db) < 2 \/ (FlagBit(hb) /\ Len(db) < 8)

\* C1: when the source ends with zero bytes at a header boundary, run()
\* returns Ok and has published one packet per frame read, none for the
\* last read attempt.
C1_CleanStopAtBoundary ==
    (pc = "Stopped" /\ src_end = "eof" /\ hdr_got = 0)
        => (run_result = Ok /\ Len(chan) = n_frames)

\* The source cut into frames by the length field of each header, as
\* (header, body) pairs; whole tells that it ends at a frame boundary
WireSplit[s \in Seq(Nat)] ==
    IF s = << >> THEN [ whole |-> TRUE, frames |-> << >> ]
    ELSE IF Len(s) < HEADER_SIZE THEN [ whole |-> FALSE, frames |-> << >> ]
    ELSE LET n == HEADER_SIZE + read_u16(s, 5) + 1
         IN  IF Len(s) < n THEN [ whole |-> FALSE, frames |-> << >> ]
             ELSE LET rest == WireSplit[SubSeq(s, n + 1, Len(s))]
                  IN  [ whole  |-> rest.whole,
                        frames |-> << << SubSeq(s, 1, HEADER_SIZE),
                                         SubSeq(s, HEADER_SIZE + 1, n) >> >>
                                   \o rest.frames ]

\* The source is N frames, each decoded by from_buffers
ValidFrames(split) ==
    /\ split.whole
    /\ \A i \in 1..Len(split.frames) :
          from_buffers(split.frames[i][1], split.frames[i][2],
                       overflow_checks).kind = "Ok"

\* C2: for a source of N valid frames the consumer, once it has seen the end
\* of the stream, has received exactly N packets, the i-th being the decode
\* of the i-th frame.
C2_OrderedAndComplete ==
    (logger_task = "Finished" /\ src_end = "eof")
        => LET split == WireSplit[src]
           IN  ValidFrames(split)
                   => /\ Len(logged) = Len(split.frames)
                      /\ \A i \in 1..Len(split.frames) :
                            logged[i] = from_buffers(split.frames[i][1],
                                                     split.frames[i][2],
                                                     overflow_checks).pkt

\* C3: when the source ends 1 to 5 bytes into a header, run() returns an
\* error and has published no packet for that attempt.
C3_TruncatedHeaderIsError ==
    (pc = "Stopped" /\ src_end = "eof" /\ hdr_got \in 1..(HEADER_SIZE - 1))
        => (run_result.kind = "Err" /\ Len(chan) = n_frames)

\* The source ended before the body announced by the header just read
ShortBody ==
    /\ pc = "Stopped"
    /\ hdr_got = HEADER_SIZE
    /\ body_got < parse_pkt_length(header_buf) + 1

\* C4: when the source ends before the L+1 body bytes announced by a header
\* read in full, run() returns the error of the body read and no packet is
\* published for that frame.
C4_TruncatedBodyIsError ==
    ShortBody => (run_result = Err("body") /\ Len(chan) = n_frames)

C4_Witness ==
    /\ ShortBody
    /\ n_frames = 1
    /\ Len(chan) = 1
    /\ body_got > 0
    /\ run_result = Err("body")

\* C5: a frame read whole, of sufficient length, whose checksum does not
\* verify makes run() return an error value; it does not panic.
C5_ChecksumErrorIsValue ==
    (/\ StoppedOnWholeFrame
     /\ ~UnderLength(header_buf, data_buf)
     /\ compute_partial(INITIAL_VALUE, header_buf \o data_buf) # 0)
        => run_result.kind = "Err"

\* C6: a frame read whole whose data field is shorter than 2 bytes, or
\* shorter than 8 bytes with the secondary header flagged, makes run() return
\* an error value; it does not panic.
C6_UnderLengthIsError ==
    (StoppedOnWholeFrame /\ UnderLength(header_buf, data_buf))
        => run_result.kind = "Err"

\* C7: once run() has stopped, the consumer eventually observes the end of
\* the stream, having received every packet that was sent.
C7_StopClosesChannel ==
    [](pc = "Stopped" => <>(logger_task = "Finished" /\ logged = chan))

\* C8: encoding a header whose fields are within their bit widths and
\* decoding the bytes gives the header back, and decoding any six bytes and
\* encoding the header gives the bytes back.
C8_HeaderRoundTrip ==
    /\ t_op = "encode_decode" => t_out = t_in
    /\ t_op = "decode_encode" => t_out = t_in

C8_Witness ==
    /\ t_op = "decode_encode"
    /\ t_in = << 255, 255, 170, 255, 8, 23 >>
    /\ t_mid.apid = 2047
    /\ t_out = t_in

\* C9: into_buffers of a packet that from_buffers returned gives back the
\* header bytes and the body bytes from_buffers was given.
C9_FrameRoundTrip ==
    (t_op = "from_buffers" /\ t_mid.kind = "Ok") => t_out = t_in

\* What is left of the data field without the secondary header (when
\* flagged) and the two bytes of checksum
Remaining(hb, db) ==
    SubSeq(db, (IF FlagBit(hb) THEN 8 ELSE 0) + 1, Len(db) - 2)

\* C10: in a packet returned by from_buffers the secondary header is present
\* iff the flag is set, and the user data is present iff bytes remain
\* between the secondary header and the checksum; it is then those bytes.
C10_PresenceRules ==
    (t_op = "from_buffers" /\ t_mid.kind = "Ok")
        => LET pkt == t_mid.pkt
               rem == Remaining(t_in[1], t_in[2])
           IN  /\ (pkt.sec_header.tag = "Some") <=> pkt.pri_header.secondary_header_flag
               /\ pkt.pri_header.secondary_header_flag <=> FlagBit(t_in[1])
               /\ (pkt.user_data.tag = "Some") <=> (Len(rem) > 0)
               /\ pkt.user_data.tag = "Some" => pkt.user_data.val.data = rem

C10_Witness ==
    /\ t_op = "from_buffers"
    /\ t_mid.kind = "Ok"
    /\ t_mid.pkt.sec_header.tag = "Some"
    /\ t_mid.pkt.user_data.tag = "Some"
    /\ Len(t_in[2]) = 11

\* C11: the two buffers of into_buffers, header then data field, joined, are
\* the buffer of into_buffer.
C11_SplitEqualsWhole ==
    t_op = "encode" => t_mid[1] \o t_mid[2] = t_out

C11_Witness ==
    /\ t_op = "encode"
    /\ t_in.sec_header.tag = "Some"
    /\ t_in.user_data.tag = "Some"
    /\ Len(t_in.user_data.val.data) = 3
    /\ Len(t_out) = HEADER_SIZE + 8 + 3 + 2
    /\ t_mid[1] \o t_mid[2] = t_out

\* C13: the data field that into_buffers and into_buffer produce has the
\* length the encoded header announces, data_length + 1.
C13_EncodedLengthField ==
    t_op = "encode"
        => /\ Len(t_mid[2]) = read_u16(t_mid[1], 5) + 1
           /\ Len(t_out) - HEADER_SIZE = read_u16(t_out, 5) + 1

\* C14: an accepted frame with one bit of its two trailing checksum bytes
\* flipped makes from_buffers return a checksum error; no Packet comes back.
C14_FlippedChecksumIsError ==
    (t_op = "flip" /\ t_mid.kind = "Ok") => t_out.kind = "Err"

\* C15: whenever run() parses and publishes, the two buffers hold the header
\* and the L+1 body bytes read from the source in this turn of the loop, so
\* that no more packets are published than frames were read.
C15_PublishedFramesAreFresh ==
    /\ pc = "Emit"
          => /\ hdr_got = HEADER_SIZE
             /\ body_got = parse_pkt_length(header_buf) + 1
             /\ header_buf \o data_buf
                    = SubSeq(src, pos - HEADER_SIZE - body_got + 1, pos)
    /\ Len(chan) <= n_frames

\* The frame read last is whole and from_buffers has no packet for it
BadWholeFrame ==
    /\ StoppedOnWholeFrame
    /\ \/ UnderLength(header_buf, data_buf)
       \/ compute_partial(INITIAL_VALUE, header_buf \o data_buf) # 0

\* run() has stopped on a frame-level error
FrameError ==
    /\ pc = "Stopped"
    /\ \/ hdr_got \in 1..(HEADER_SIZE - 1)
       \/ ShortBody
       \/ BadWholeFrame

\* C16: when run() stops on a short header, a short body or a frame that
\* does not decode, it returns an error value and has published only the
\* frames read before the failing one.
C16_NoResynchronisation ==
    FrameError
        => /\ run_result.kind = "Err"
           /\ Len(chan) = IF BadWholeFrame THEN n_frames - 1 ELSE n_frames

\* C17: a packet decoded while no receiver is alive is not sent: run()
\* returns the error of send at that point, and once stopped it reads and
\* publishes nothing more.
C17_ConsumerGoneIsFatal ==
    [][ /\ (/\ pc = "Emit"
            /\ ~rx_alive
            /\ from_buffers(header_buf, data_buf, overflow_checks).kind = "Ok")
               => /\ pc' = "Stopped"
                  /\ run_result' = Err("send")
                  /\ chan' = chan
                  /\ pos' = pos
        /\ pc = "Stopped"
               => UNCHANGED << pc, run_result, chan, pos, n_frames >> ]_vars

C17_Witness ==
    /\ pc = "Stopped"
    /\ run_result = Err("send")
    /\ ~rx_alive
    /\ n_frames = 1
    /\ chan = << >>
    /\ pos < Len(src)
    /\ WireSplit[src].whole
    /\ Len(WireSplit[src].frames) = 2

\* C19: run() eventually stops, whatever the source; each read takes the
\* bytes that follow the ones already consumed, and the position in the
\* source never goes back nor past its end.
C19_RunTerminates ==
    /\ <>(pc = "Stopped")
    /\ [][ /\ pos <= pos' /\ pos' <= Len(src)
           /\ (pc = "AwaitingHeader" /\ pc' = "AwaitingBody")
                  => /\ pos' = pos + HEADER_SIZE
                     /\ header_buf' = SubSeq(src, pos + 1, pos')
           /\ (pc = "AwaitingBody" /\ pc' = "Emit")
                  => /\ pos' > pos
                     /\ data_buf' = SubSeq(src, pos + 1, pos') ]_vars

C19_Witness ==
    /\ pc = "Stopped"
    /\ run_result = Ok
    /\ n_frames = 2
    /\ pos = Len(src)
    /\ pos > 2 * HEADER_SIZE

\* The packets a consumer has missed so far, counting all that were sent
Missed == Len(chan) - Len(logged)

\* C12: a consumer that has ended has missed no more packets than the
\* channel overwrote, the oldest ones it had not received, and has received
\* the others in the order they were sent.
C12_LagDropsOnlyOldest ==
    logger_task = "Finished"
        => /\ Missed >= 0
           /\ Missed <= IF Len(chan) > CHANNEL_SIZE
                        THEN Len(chan) - CHANNEL_SIZE ELSE 0
           /\ \A j \in 1..Len(logged) :
                 logged[j] = chan[j] \/ logged[j] = chan[j + Missed]

\* C18: whenever run() is at the publish, the publish can complete at once,
\* whatever the channel holds and wherever the consumer stands; run() is
\* otherwise at one of its two reads, or has stopped.
C18_ProducerNeverWaits ==
    /\ pc \in { "AwaitingHeader", "AwaitingBody", "Emit", "Stopped" }
    /\ pc = "Emit" => ENABLED Emit

C18_Witness ==
    /\ pc = "Stopped"
    /\ logger_task = "Running"
    /\ rx_next = 0
    /\ Len(chan) > CHANNEL_SIZE
    /\ pos = Len(src)

=============================================================================
